---- MODULE Spec2Model ----
(***************************************************************************)
(* A model of `ignore` (fisherprime/ignore): the template index builder,   *)
(* the template selector and the template consolidator of src/src/app.rs.  *)
(*                                                                         *)
(* Text is modelled at the character level: a Rust String is a sequence    *)
(* of one-character strings, so that prefix, suffix, substring, line       *)
(* splitting, trimming and byte-wise ordering are computed, not assumed.   *)
(***************************************************************************)
EXTENDS Integers, Sequences, FiniteSets, TLC

VARIABLES
    config,               \* app_conf.config.repository.config: Vec<RepoConfig>
    fs_dirs,              \* directories that exist below the cache directory
    fs_files,             \* regular files that exist below the cache directory
    conf_i,               \* position of generate_template_paths' loop over config
    walk_stack,           \* update_template_paths' recursion: one read_dir iterator per frame
    template_paths,       \* the TemplatePaths index (BTreeMap<String, Vec<String>>)
    templates,            \* app_conf.templates: the names the user requested
    file_state,           \* per template file: whether it opens and reads, and its content
    available_templates,  \* the result of parse_templates
    template_string,      \* concatenate_templates: the block text built for each template
    consolidation_string, \* generate_gitignore: the document concatenate_templates returned
    result,               \* the Result the running operation returned
    log,                  \* warn! records emitted so far
    output_file,          \* content of app_conf.gitignore_output_file
    pc,                   \* position of the running operation
    clock,                \* SystemTime::now(), in seconds
    state,                \* app_conf.state: the State in memory
    disk,                 \* the state and config files and their .bak siblings
    operation,            \* app_conf.operation
    git_repos,            \* cache paths that Repository::discover accepts
    refresh,              \* per RepoConfig: how far its refresh got and how it ended
    is_stale,             \* what check_staleness returned in this run
    exit_status,          \* the exit status of the process, once it has ended
    runs,                 \* runs of the program started so far
    writes,               \* assignments to state.last_update in this refresh cycle
    stdout                \* what the process has printed on its standard output

vars == <<config, fs_dirs, fs_files, conf_i, walk_stack, template_paths, templates,
          file_state, available_templates, template_string, consolidation_string,
          result, log, output_file, pc,
          clock, state, disk, operation, git_repos, refresh, is_stale, exit_status,
          runs, writes, stdout>>

\* What only a whole run of the program touches.
run_vars == <<clock, state, disk, operation, git_repos, refresh, is_stale, exit_status,
              runs, writes, stdout>>

-----------------------------------------------------------------------------
(* Bounds of the model.                                                    *)

\* Largest number of regular files in the first repository's tree.
MaxFiles == 2
\* Largest number of template names in one request.
MaxReq == 2
\* Largest number of lines in one template file body.
MaxLines == 2

-----------------------------------------------------------------------------
(* Characters and strings.                                                 *)

\* The byte value of a character (ASCII), which orders String comparisons.
Code(c) ==
    CASE c = "\n" -> 10 [] c = " " -> 32 [] c = "!" -> 33 [] c = "#" -> 35
      [] c = "*" -> 42 [] c = "-" -> 45 [] c = "." -> 46 [] c = "/" -> 47
      [] c = "1" -> 49 [] c = "2" -> 50 [] c = ":" -> 58
      [] c = "C" -> 67 [] c = "E" -> 69 [] c = "I" -> 73 [] c = "L" -> 76
      [] c = "N" -> 78 [] c = "P" -> 80 [] c = "R" -> 82 [] c = "S" -> 83
      [] c = "T" -> 84 [] c = "X" -> 88
      [] c = "a" -> 97 [] c = "b" -> 98 [] c = "c" -> 99 [] c = "d" -> 100
      [] c = "e" -> 101 [] c = "g" -> 103 [] c = "h" -> 104 [] c = "i" -> 105
      [] c = "l" -> 108 [] c = "m" -> 109 [] c = "n" -> 110 [] c = "o" -> 111
      [] c = "p" -> 112 [] c = "r" -> 114 [] c = "s" -> 115 [] c = "t" -> 116
      [] c = "u" -> 117 [] c = "x" -> 120 [] c = "y" -> 121

\* str::starts_with
StartsWith(s, p) == Len(s) >= Len(p) /\ SubSeq(s, 1, Len(p)) = p

\* str::ends_with
EndsWith(s, p) == Len(s) >= Len(p) /\ SubSeq(s, Len(s) - Len(p) + 1, Len(s)) = p

\* str::contains with a &str pattern: substring search.
Contains(s, p) == \E i \in 0..(Len(s) - Len(p)) : SubSeq(s, i + 1, i + Len(p)) = p

\* Ord for str: lexicographic comparison of the bytes.
RECURSIVE StrLess(_, _)
StrLess(a, b) ==
    IF a = <<>> THEN b # <<>>
    ELSE IF b = <<>> THEN FALSE
    ELSE IF Head(a) = Head(b) THEN StrLess(Tail(a), Tail(b))
    ELSE Code(Head(a)) < Code(Head(b))

\* Concatenation of a sequence of strings (repeated String::push_str).
RECURSIVE Concat(_)
Concat(ss) == IF ss = <<>> THEN <<>> ELSE Head(ss) \o Concat(Tail(ss))

-----------------------------------------------------------------------------
(* File names of the index builder.                                         *)

\* DirEntry::file_name().starts_with(".")
is_hidden(f_name) == StartsWith(f_name, <<".">>)

\* f_name.ends_with("md") || f_name.starts_with("LICENSE") || is_hidden(entry)
ignore_file_nohidden(f_name) ==
    \/ EndsWith(f_name, <<"m", "d">>)
    \/ StartsWith(f_name, <<"L", "I", "C", "E", "N", "S", "E">>)

ignore_file(f_name) ==
    \/ EndsWith(f_name, <<"m", "d">>)
    \/ StartsWith(f_name, <<"L", "I", "C", "E", "N", "S", "E">>)
    \/ is_hidden(f_name)

\* Positions of '.' in a file name.
DotPositions(f_name) == {i \in 1..Len(f_name) : f_name[i] = "."}

Max(S) == CHOOSE x \in S : \A y \in S : y <= x

\* Path::file_stem: the whole name if it has no '.', or if it begins with '.'
\* and has no other '.'; otherwise the part before the final '.'.
remove_filetype(f_name) ==
    LET dots == DotPositions(f_name) \ {1}
    IN  IF dots = {} THEN f_name ELSE SubSeq(f_name, 1, Max(dots) - 1)

-----------------------------------------------------------------------------
(* Maps (BTreeMap) and results.                                             *)

EmptyMap == [k \in {} |-> <<>>]

\* Result values: Ok(()), or Err with the kind of error that was boxed.
NoResult == [status |-> "none", kind |-> "", message |-> <<>>]
Ok == [status |-> "Ok", kind |-> "", message |-> <<>>]
\* io::Error, from read_dir, File::open, read_to_string, set_len or write_all.
ErrIo == [status |-> "Err", kind |-> "io", message |-> <<"i", "o">>]
\* git2::Error, from Repository::clone_recurse.
ErrGit == [status |-> "Err", kind |-> "git", message |-> <<"g", "i", "t">>]

\* A file that does not exist.
AbsentFile == [exists |-> FALSE, content |-> <<>>]

\* No run of the whole program is under way: an operation is exercised on
\* its own.
RunIdle ==
    /\ clock = 0
    /\ state = [last_update |-> 0]
    /\ disk = EmptyMap
    /\ operation = "Else"
    /\ git_repos = {}
    /\ refresh = <<>>
    /\ is_stale = "none"
    /\ exit_status = "none"
    /\ runs = 0
    /\ writes = 0
    /\ stdout = <<>>

-----------------------------------------------------------------------------
(* The cached repositories on disk.                                         *)

n_C == <<"C">>
n_Cg == <<"C", ".", "g">>
n_abg == <<"a", ".", "b", ".", "g">>
n_cmd == <<"c", "m", "d">>
n_Rmd == <<"R", ".", "m", "d">>
n_dotg == <<".", "g">>
n_LICENSE == <<"L", "I", "C", "E", "N", "S", "E">>
n_d == <<"d">>
n_dotd == <<".", "d">>
r1 == <<"r", "1">>
r2 == <<"r", "2">>
url_remote == <<"u">>

\* File names a repository tree may hold, and the directories (relative to
\* the repository root) that may hold them.
FileNames == {n_C, n_Cg, n_abg, n_cmd, n_Rmd, n_dotg, n_LICENSE}
RelDirs == {<<>>, <<n_d>>, <<n_dotd>>, <<n_cmd>>, <<n_d, n_d>>}
RelFiles == {d \o <<n>> : d \in RelDirs, n \in FileNames}

\* Proper, non-empty prefixes of a path: the directories above it.
Ancestors(p) == {SubSeq(p, 1, i) : i \in 1..(Len(p) - 1)}

RECURSIVE SubsetsUpTo(_, _)
SubsetsUpTo(S, k) ==
    IF k = 0 THEN {{}}
    ELSE LET prev == SubsetsUpTo(S, k - 1)
         IN  prev \cup {s \cup {x} : s \in prev, x \in S}

\* A tree never holds a regular file and a directory of the same path.
TreeOk(t) == \A p \in t : \A q \in t : p \notin Ancestors(q)

Trees1 == {t \in SubsetsUpTo(RelFiles, MaxFiles) : TreeOk(t)}
Trees2 == {{}, {<<n_Cg>>}, {<<n_d, n_C>>, <<n_Rmd>>}}
\* What a successful clone of a missing repository leaves on disk.
ClonedTree == {<<n_Cg>>, <<n_dotg>>}

\* The ways a configured repository can stand before a run.
RepoKinds == {"cached", "skipped", "absent", "absent_no_url"}

RepoConfig(path, kind) ==
    [auto_update |-> FALSE,
     skip |-> (kind = "skipped"),
     path |-> path,
     url |-> IF kind = "absent_no_url" THEN <<>> ELSE url_remote]

KindOk(kind, tree) ==
    /\ kind \in {"absent", "absent_no_url"} => tree = {}
    /\ kind = "skipped" => Cardinality(tree) <= 1

\* absolute_repo_path!: cache_dir/path, as path components below cache_dir.
absolute_repo_path(conf) == <<conf.path>>

FilesOf(root, tree) == {<<root>> \o p : p \in tree}
DirsOf(files) == UNION {Ancestors(f) : f \in files}

\* fs::read_dir: the names of the entries of a directory.
ReadDir(dirs, files, dir) ==
    {p[Len(p)] : p \in {q \in dirs \cup files :
                          Len(q) = Len(dir) + 1 /\ SubSeq(q, 1, Len(dir)) = dir}}

-----------------------------------------------------------------------------
(* Template Index Builder: generate_template_paths, update_template_paths.  *)

\* template_paths.entry(key).or_default().push(path)
PushPath(tp, key, path) ==
    IF key \in DOMAIN tp THEN [tp EXCEPT ![key] = Append(@, path)]
    ELSE tp @@ (key :> <<path>>)

InitIndex ==
    \E t1 \in Trees1, t2 \in Trees2, k1 \in RepoKinds, k2 \in RepoKinds :
        /\ KindOk(k1, t1) /\ KindOk(k2, t2)
        /\ config = <<RepoConfig(r1, k1), RepoConfig(r2, k2)>>
        /\ fs_files = FilesOf(r1, t1) \cup FilesOf(r2, t2)
        /\ fs_dirs = DirsOf(FilesOf(r1, t1) \cup FilesOf(r2, t2))
                       \cup (IF k1 \in {"cached", "skipped"} THEN {<<r1>>} ELSE {})
                       \cup (IF k2 \in {"cached", "skipped"} THEN {<<r2>>} ELSE {})
        /\ conf_i = 1
        /\ walk_stack = <<>>
        /\ template_paths = EmptyMap
        /\ templates = <<>>
        /\ file_state = EmptyMap
        /\ available_templates = EmptyMap
        /\ template_string = EmptyMap
        /\ consolidation_string = <<>>
        /\ result = NoResult
        /\ log = <<>>
        /\ output_file = AbsentFile
        /\ pc = "generate_template_paths"
        /\ RunIdle

\* The loop of generate_template_paths moves to the next RepoConfig, or
\* returns Ok(template_paths) after the last one.
NextConfPc(i) == IF i > Len(config) THEN "index_done" ELSE "generate_template_paths"

\* One iteration of generate_template_paths' loop up to the call of
\* update_template_paths: skip, clone a missing repository, read_dir the root.
GenerateTemplatePaths ==
    /\ UNCHANGED run_vars
    /\ pc = "generate_template_paths"
    /\ conf_i <= Len(config)
    /\ LET conf == config[conf_i]
           root == absolute_repo_path(conf)
           must_clone == root \notin fs_dirs /\ conf.url # <<>>
       IN  IF conf.skip
           THEN /\ conf_i' = conf_i + 1
                /\ pc' = NextConfPc(conf_i + 1)
                /\ result' = IF conf_i + 1 > Len(config) THEN Ok ELSE result
                /\ UNCHANGED <<fs_dirs, fs_files, walk_stack>>
           ELSE \E cloned \in BOOLEAN :
                  IF must_clone /\ ~cloned
                  THEN \* fetch_repository(..)? propagates the clone failure
                       /\ pc' = "index_failed"
                       /\ result' = ErrGit
                       /\ UNCHANGED <<fs_dirs, fs_files, walk_stack, conf_i>>
                  ELSE LET files == IF must_clone
                                    THEN fs_files \cup FilesOf(conf.path, ClonedTree)
                                    ELSE fs_files
                           dirs == IF must_clone THEN fs_dirs \cup {root} ELSE fs_dirs
                       IN  /\ fs_files' = files
                           /\ fs_dirs' = dirs
                           /\ IF root \in dirs
                              THEN /\ walk_stack' = <<[dir |-> root,
                                                       pending |-> ReadDir(dirs, files, root)]>>
                                   /\ pc' = "update_template_paths"
                                   /\ result' = result
                              ELSE \* fs::read_dir(dir)? fails on a missing root
                                   /\ walk_stack' = walk_stack
                                   /\ pc' = "index_failed"
                                   /\ result' = ErrIo
                           /\ conf_i' = conf_i
    /\ UNCHANGED <<config, template_paths, templates, file_state, available_templates,
                   template_string, consolidation_string, log, output_file>>

\* One entry of the read_dir iterator of the innermost update_template_paths
\* call: ignored, recursed into, or pushed under its template name.  The
\* order in which read_dir yields entries is the file system's.
UpdateTemplatePathsEntry ==
    /\ UNCHANGED run_vars
    /\ pc = "update_template_paths"
    /\ walk_stack # <<>>
    /\ LET top == walk_stack[Len(walk_stack)]
           below == SubSeq(walk_stack, 1, Len(walk_stack) - 1)
       IN  \E f_name \in top.pending :
             LET entry_path == top.dir \o <<f_name>>
                 rest == Append(below, [top EXCEPT !.pending = @ \ {f_name}])
             IN  IF ignore_file(f_name)
                 THEN /\ walk_stack' = rest
                      /\ template_paths' = template_paths
                 ELSE IF entry_path \in fs_dirs
                 THEN /\ walk_stack' = Append(rest,
                             [dir |-> entry_path,
                              pending |-> ReadDir(fs_dirs, fs_files, entry_path)])
                      /\ template_paths' = template_paths
                 ELSE /\ walk_stack' = rest
                      /\ template_paths' =
                             PushPath(template_paths, remove_filetype(f_name), entry_path)
    /\ UNCHANGED <<config, fs_dirs, fs_files, conf_i, templates, file_state,
                   available_templates, template_string, consolidation_string,
                   result, log, output_file, pc>>

\* The read_dir iterator of the innermost update_template_paths call is
\* exhausted: it returns Ok(()) to its caller.
UpdateTemplatePathsReturn ==
    /\ UNCHANGED run_vars
    /\ pc = "update_template_paths"
    /\ walk_stack # <<>>
    /\ walk_stack[Len(walk_stack)].pending = {}
    /\ walk_stack' = SubSeq(walk_stack, 1, Len(walk_stack) - 1)
    /\ IF Len(walk_stack) = 1
       THEN /\ conf_i' = conf_i + 1
            /\ pc' = NextConfPc(conf_i + 1)
            /\ result' = IF conf_i + 1 > Len(config) THEN Ok ELSE result
       ELSE UNCHANGED <<conf_i, pc, result>>
    /\ UNCHANGED <<config, fs_dirs, fs_files, template_paths, templates, file_state,
                   available_templates, template_string, consolidation_string,
                   log, output_file>>

NextIndex ==
    \/ GenerateTemplatePaths
    \/ UpdateTemplatePathsEntry
    \/ UpdateTemplatePathsReturn

SpecIndex == InitIndex /\ [][NextIndex]_vars

-----------------------------------------------------------------------------
(* Terms of the index claims.                                               *)

\* The exclusion rule as the claims state it.
ClaimExcluded(f_name) ==
    \/ StartsWith(f_name, <<".">>)
    \/ EndsWith(f_name, <<".", "m", "d">>)
    \/ StartsWith(f_name, <<"L", "I", "C", "E", "N", "S", "E">>)

\* The template name as the claims state it.
ClaimStem(f_name) ==
    IF DotPositions(f_name) = {} THEN f_name
    ELSE SubSeq(f_name, 1, Max(DotPositions(f_name)) - 1)

\* The template names under which a path is listed, and how often.
KeysListing(path) ==
    {k \in DOMAIN template_paths :
        \E i \in 1..Len(template_paths[k]) : template_paths[k][i] = path}
Occurrences(path) ==
    {<<k, i>> \in UNION {{k} \X (1..Len(template_paths[k])) : k \in DOMAIN template_paths} :
        template_paths[k][i] = path}

Skipped(path) == \E i \in 1..Len(config) : config[i].path = path[1] /\ config[i].skip

ClaimIndexable(path) ==
    /\ ~Skipped(path)
    /\ \A j \in 2..Len(path) : ~ClaimExcluded(path[j])

(* C1 (src/src/app.rs:476-539).  After the index is built, every file of a  *)
(* repository that is not skipped, none of whose path components below     *)
(* the root starts with '.', ends in '.md' or starts with 'LICENSE', is     *)
(* listed under exactly one template name: its base name without the last   *)
(* '.extension' segment.                                                    *)
C1_EveryNonExcludedFileIndexed ==
    pc = "index_done" =>
        \A f \in fs_files :
            ClaimIndexable(f) =>
                /\ KeysListing(f) = {ClaimStem(f[Len(f)])}
                /\ Cardinality(Occurrences(f)) = 1

-----------------------------------------------------------------------------
(* Text operations of the consolidator.                                     *)

FILE_CONTENT_DELIMITER == <<"#", " ", "-", "-", "-", "-">>
TEMPLATE_SUPPLEMENT_DELIMITER == <<"#", " ", "*", "*", "*", "*">>

\* GITIGNORE_ENTRY_REGEX.is_match: the line holds one of '*', '/', '!'.
GITIGNORE_ENTRY_REGEX_any(line) == TRUE
GITIGNORE_ENTRY_REGEX(line) == \E i \in 1..Len(line) : line[i] \in {"*", "/", "!"}

\* char::is_whitespace, on the characters of the model.
IsWhitespace(c) == c \in {" ", "\t", "\n", "\r"}

\* str::trim
RECURSIVE TrimStart(_)
TrimStart(s) ==
    IF s # <<>> /\ IsWhitespace(Head(s)) THEN TrimStart(Tail(s)) ELSE s
RECURSIVE TrimEnd(_)
TrimEnd(s) ==
    IF s # <<>> /\ IsWhitespace(s[Len(s)]) THEN TrimEnd(SubSeq(s, 1, Len(s) - 1)) ELSE s
Trim(s) == TrimEnd(TrimStart(s))

\* str::lines: lines end at "\n" or "\r\n"; the ending of the last line is
\* optional; no empty line follows a final line ending.
StripCR(line) ==
    IF line # <<>> /\ line[Len(line)] = "\r" THEN SubSeq(line, 1, Len(line) - 1) ELSE line
RECURSIVE SplitLines(_, _)
SplitLines(s, cur) ==
    IF s = <<>> THEN (IF cur = <<>> THEN <<>> ELSE <<cur>>)
    ELSE IF Head(s) = "\n" THEN <<StripCR(cur)>> \o SplitLines(Tail(s), <<>>)
    ELSE SplitLines(Tail(s), Append(cur, Head(s)))
Lines(s) == SplitLines(s, <<>>)

\* Vec<String>::sort: ascending in the byte order of str (stable).
RECURSIVE InsertSorted(_, _)
InsertSorted(x, v) ==
    IF v = <<>> THEN <<x>>
    ELSE IF StrLess(x, Head(v)) THEN <<x>> \o v
    ELSE <<Head(v)>> \o InsertSorted(x, Tail(v))
RECURSIVE SortVec(_)
SortVec(v) == IF v = <<>> THEN <<>> ELSE InsertSorted(v[Len(v)], SortVec(SubSeq(v, 1, Len(v) - 1)))

\* Vec<String>::dedup: removes consecutive repeated elements.
RECURSIVE DedupVec(_)
DedupVec(v) ==
    IF Len(v) <= 1 THEN v
    ELSE IF v[1] = v[2] THEN DedupVec(Tail(v))
    ELSE <<v[1]>> \o DedupVec(Tail(v))

-----------------------------------------------------------------------------
(* Template Consolidator: dedup_templates.                                  *)

\* The lines of template_vec[1..], in the order of the two nested loops.
RECURSIVE SecondaryLines(_)
SecondaryLines(bodies) ==
    IF bodies = <<>> THEN <<>> ELSE Lines(Head(bodies)) \o SecondaryLines(Tail(bodies))

\* The opening of the supplementary section, pushed with the first line.
SupplementOpening(template, primary_content) ==
    primary_content \o <<"\n">>
        \o <<"#", " ">> \o template \o <<" ", "s", "u", "p", "p", "l", "e", "m", "e", "n", "t", "a", "r", "y", " ", "c", "o", "n", "t", "e", "n", "t", "\n">>
        \o TEMPLATE_SUPPLEMENT_DELIMITER \o <<"\n">>

\* The body of the inner loop, over the remaining lines: insert_string grows
\* by every line that the filter lets through.
RECURSIVE DedupLoop(_, _, _, _)
DedupLoop(lines, template, primary_content, insert_string) ==
    IF lines = <<>> THEN insert_string
    ELSE LET trimmed_line == Trim(Head(lines))
             invalid_line ==
                 \/ ~GITIGNORE_ENTRY_REGEX(trimmed_line)
                 \/ Contains(primary_content, trimmed_line)
                 \/ Contains(insert_string, trimmed_line)
         IN  IF invalid_line
             THEN DedupLoop(Tail(lines), template, primary_content, insert_string)
             ELSE DedupLoop(Tail(lines), template, primary_content,
                     (IF insert_string = <<>>
                      THEN SupplementOpening(template, primary_content)
                      ELSE insert_string) \o trimmed_line \o <<"\n">>)

dedup_templates(template, template_vec) ==
    LET primary_content == template_vec[1]
        insert_string == DedupLoop(SecondaryLines(Tail(template_vec)), template,
                                   primary_content, <<>>)
    IN  IF insert_string = <<>> THEN primary_content
        ELSE insert_string \o TEMPLATE_SUPPLEMENT_DELIMITER \o <<"\n">>

-----------------------------------------------------------------------------
(* Template Selector: parse_templates.                                      *)

\* BTreeMap::insert / *entry(key).or_default() = value
MapPut(m, key, value) == [k \in DOMAIN m \cup {key} |-> IF k = key THEN value ELSE m[k]]

\* The loop of parse_templates: template_paths.get(&template) is an exact,
\* case-sensitive lookup of the requested name.
RECURSIVE ParseLoop(_, _, _)
ParseLoop(template_list, index, available) ==
    IF template_list = <<>> THEN available
    ELSE LET template == Head(template_list)
         IN  IF template \in DOMAIN index
             THEN ParseLoop(Tail(template_list), index,
                            MapPut(available, template, index[template]))
             ELSE ParseLoop(Tail(template_list), index, available)

\* A plausible slip: the whole index is returned, unfiltered.
parse_templates_unfiltered(template_list, index) == index

parse_templates(template_list, index) == ParseLoop(template_list, index, EmptyMap)

-----------------------------------------------------------------------------
(* Template Consolidator and Output Assembler: concatenate_templates.       *)

\* Display of Error { kind: MissingTemplates, other_message: "", error: None }
ErrMissingTemplates ==
    [status |-> "Err", kind |-> "MissingTemplates",
     message |-> <<"N", "o", "n", "e", " ", "o", "f", " ", "t", "h", "e", " ", "r", "e", "q", "u", "e", "s", "t", "e", "d", " ", "g", "i", "t", "i", "g", "n", "o", "r", "e", " ", "t", "e", "m", "p", "l", "a", "t", "e", "(", "s", ")", " ", "c", "o", "u", "l", "d", " ", "b", "e", " ", "f", "o", "u", "n", "d">>]

\* The records that warn! and error! write.
WarnLocate(requested_templates) ==
    [level |-> "warn",
     text |-> "Could not locate template(s) (names are case sensitive)",
     arg |-> requested_templates]
WarnUse(requested_templates) ==
    [level |-> "warn",
     text |-> "Could not use template(s) (names are case sensitive)",
     arg |-> requested_templates]
ErrorOpen(file_path) ==
    [level |-> "error",
     text |-> "Failed to open gitignore template file",
     arg |-> file_path]

RECURSIVE SetToSeq(_)
SetToSeq(S) ==
    IF S = {} THEN <<>>
    ELSE LET x == CHOOSE x \in S : TRUE IN <<x>> \o SetToSeq(S \ {x})

\* A plausible slip: the keys are iterated from the last to the first.
SortedKeys_descending(m) ==
    LET ascending == SortVec(SetToSeq(DOMAIN m))
    IN  [i \in 1..Len(ascending) |-> ascending[Len(ascending) + 1 - i]]

\* Iteration order of a BTreeMap<String, _>: ascending keys.
SortedKeys(m) == SortVec(SetToSeq(DOMAIN m))

\* The inner loop over file_paths: File::open failures are logged and
\* skipped; a read_to_string failure is returned with `?`.
RECURSIVE ReadLoop(_, _, _)
ReadLoop(file_paths, files, acc) ==
    IF file_paths = <<>> THEN acc
    ELSE LET file_path == Head(file_paths)
             file == files[file_path]
         IN  IF file.status = "open_err"
             THEN ReadLoop(Tail(file_paths), files,
                           [acc EXCEPT !.log = Append(@, ErrorOpen(file_path))])
             ELSE IF file.status = "read_err"
             THEN [acc EXCEPT !.err = TRUE]
             ELSE ReadLoop(Tail(file_paths), files,
                           [acc EXCEPT !.template_vec = Append(@, file.content)])

\* A plausible slip: the bodies are pushed one after the other.
TemplateContent_concatenated(template, template_vec) == Concat(template_vec)

\* template_vec.sort(); template_vec.dedup(); then dedup_templates for more
\* than one distinct body, else the single body.
TemplateContent(template, template_vec) ==
    LET deduped == DedupVec(SortVec(template_vec))
    IN  IF Len(deduped) > 1 THEN dedup_templates(template, deduped) ELSE deduped[1]

\* templates_used.is_empty()
NoBlockProduced_unchecked(templates_used) == FALSE
NoBlockProduced(templates_used) == templates_used = <<>>

\* The outer loop over available_templates, in key order.
RECURSIVE ConcatLoop(_, _, _, _)
ConcatLoop(keys, available, files, acc) ==
    IF keys = <<>> \/ acc.err THEN acc
    ELSE LET template == Head(keys)
             read == ReadLoop(available[template], files,
                              [template_vec |-> <<>>, log |-> acc.log, err |-> FALSE])
             block == <<"\n", "#", " ">> \o template \o <<"\n">> \o FILE_CONTENT_DELIMITER \o <<"\n">>
                        \o TemplateContent(template, read.template_vec)
                        \o FILE_CONTENT_DELIMITER \o <<"\n">>
         IN  IF read.err THEN [acc EXCEPT !.err = TRUE, !.log = read.log]
             ELSE IF read.template_vec = <<>>
             THEN ConcatLoop(Tail(keys), available, files, [acc EXCEPT !.log = read.log])
             ELSE ConcatLoop(Tail(keys), available, files,
                     [consolidation_string |-> acc.consolidation_string \o block,
                      templates_used |-> acc.templates_used \o <<" ">> \o template,
                      template_string |-> MapPut(acc.template_string, template, block),
                      log |-> read.log,
                      err |-> FALSE])

\* A plausible slip: the summary line is left out of the document.
ReturnString_nosummary(templates_used, blocks) ==
    <<"#", "\n", "#", " ", ".", "g", "i", "t", "i", "g", "n", "o", "r", "e", "\n", "#", "\n", "\n">>
        \o blocks

\* return_string: the header, then "# Templates used:{}\n{}".
ReturnString(templates_used, blocks) ==
    <<"#", "\n", "#", " ", ".", "g", "i", "t", "i", "g", "n", "o", "r", "e", "\n", "#", "\n", "\n">>
        \o <<"#", " ", "T", "e", "m", "p", "l", "a", "t", "e", "s", " ", "u", "s", "e", "d", ":">>
        \o templates_used \o <<"\n">>
        \o blocks

\* concatenate_templates: the Result, the String of an Ok, the block built
\* for each template, and what was logged.
concatenate_templates(requested_templates, available, files) ==
    LET loop == ConcatLoop(SortedKeys(available), available, files,
                           [consolidation_string |-> <<>>, templates_used |-> <<>>,
                            template_string |-> EmptyMap, log |-> <<>>, err |-> FALSE])
    IN  IF DOMAIN available = {}
        THEN [result |-> ErrMissingTemplates, return_string |-> <<>>,
              template_string |-> EmptyMap,
              log |-> <<WarnLocate(requested_templates)>>]
        ELSE IF loop.err
        THEN [result |-> ErrIo, return_string |-> <<>>,
              template_string |-> loop.template_string, log |-> loop.log]
        ELSE IF NoBlockProduced(loop.templates_used)
        THEN [result |-> ErrMissingTemplates, return_string |-> <<>>,
              template_string |-> loop.template_string,
              log |-> Append(loop.log, WarnUse(requested_templates))]
        ELSE [result |-> Ok,
              return_string |-> ReturnString(loop.templates_used, loop.consolidation_string),
              template_string |-> loop.template_string,
              log |-> loop.log]

-----------------------------------------------------------------------------
(* generate_gitignore: the requests, indexes and template files it runs on. *)

t_C == <<"C">>
t_c == <<"c">>
t_X == <<"X">>
TemplateNames == {t_C, t_c, t_X}

\* The template files of the index, as update_template_paths lists them.
p_C1 == <<r1, <<"C", ".", "g">>>>
p_C2 == <<r2, <<"C", ".", "g">>>>
p_c1 == <<r1, <<"c", ".", "g">>>>

\* Lines a template file may hold: ignore rules, a rule that is part of
\* another, a rule with blanks around it, a plain file name and a comment
\* that mentions a path.
LinePool == {<<"*", "a">>, <<"*">>, <<" ", "b", "/", " ">>, <<"a">>, <<"#", "/">>}

\* Bodies with blank lines.
BlankBodies == {<<"\n">>, <<"\n", "*", "a", "\n">>}

RECURSIVE BodiesOfLines(_)
BodiesOfLines(n) ==
    IF n = 0 THEN {<<>>}
    ELSE {b \o l \o <<"\n">> : b \in BodiesOfLines(n - 1), l \in LinePool}

\* File bodies of one to MaxLines lines; a one-line body may lack its "\n".
Bodies == UNION {BodiesOfLines(n) : n \in 1..MaxLines} \cup LinePool \cup BlankBodies

RECURSIVE SeqsUpTo(_, _)
SeqsUpTo(S, n) ==
    IF n = 0 THEN {<<>>}
    ELSE LET shorter == SeqsUpTo(S, n - 1)
         IN  shorter \cup {Append(s, x) : s \in shorter, x \in S}

\* clap's num_args(1..): at least one requested name.
Requests == SeqsUpTo(TemplateNames, MaxReq) \ {<<>>}

FileStatus == {"ok", "open_err", "read_err"}
File(status, content) == [status |-> status, content |-> content]

\* The destination before the run: absent, or left by an earlier run.
\* The longer one is longer than every document of these inputs.
LongOutput == [i \in 1..400 |-> IF i % 4 = 0 THEN "\n" ELSE "o"]
PreviousOutputs == {AbsentFile, [exists |-> TRUE, content |-> <<"o", "l", "d", "\n">>],
                    [exists |-> TRUE, content |-> LongOutput]}

InitGenCommon ==
    /\ config = <<RepoConfig(r1, "cached"), RepoConfig(r2, "cached")>>
    /\ fs_dirs = {<<r1>>, <<r2>>}
    /\ fs_files = DOMAIN file_state
    /\ conf_i = 1
    /\ walk_stack = <<>>
    /\ available_templates = EmptyMap
    /\ template_string = EmptyMap
    /\ consolidation_string = <<>>
    /\ result = NoResult
    /\ log = <<>>
    /\ pc = "parse_templates"

\* Selection: up to two templates in the index, whose names differ by case
\* only, files that open, fail to open or fail to read, and every request of
\* up to MaxReq names.
InitSelect ==
    \E nC \in 0..2, has_c \in BOOLEAN,
       sC1 \in FileStatus, sC2 \in FileStatus, sc \in FileStatus,
       bC2 \in {<<"*", "a", "\n">>, <<" ", "b", "/", " ", "\n">>} :
        /\ (nC < 1 => sC1 = "ok") /\ (nC < 2 => sC2 = "ok" /\ bC2 = <<"*", "a", "\n">>)
        /\ (~has_c => sc = "ok")
        /\ template_paths =
              [k \in (IF nC > 0 THEN {t_C} ELSE {}) \cup (IF has_c THEN {t_c} ELSE {}) |->
                  IF k = t_C THEN (IF nC = 1 THEN <<p_C1>> ELSE <<p_C1, p_C2>>)
                  ELSE <<p_c1>>]
        /\ file_state =
              [p \in (IF nC > 0 THEN {p_C1} ELSE {}) \cup (IF nC > 1 THEN {p_C2} ELSE {})
                       \cup (IF has_c THEN {p_c1} ELSE {}) |->
                  IF p = p_C1 THEN File(sC1, <<"*", "a", "\n">>)
                  ELSE IF p = p_C2 THEN File(sC2, bC2)
                  ELSE File(sc, <<" ", "b", "/", " ", "\n">>)]
        /\ templates \in Requests
        /\ output_file \in PreviousOutputs
        /\ InitGenCommon

\* Consolidation: one template provided by both repositories, with every
\* pair of bodies.
InitDedup ==
    /\ template_paths = (t_C :> <<p_C1, p_C2>>)
    /\ \E b1 \in Bodies, b2 \in Bodies :
          file_state = (p_C1 :> File("ok", b1)) @@ (p_C2 :> File("ok", b2))
    /\ templates = <<t_C>>
    /\ output_file = AbsentFile
    /\ InitGenCommon

InitGen == (InitSelect \/ InitDedup) /\ RunIdle

\* generate_gitignore, first call: parse_templates over the index that
\* generate_template_paths returned.
ParseTemplates ==
    /\ UNCHANGED run_vars
    /\ pc = "parse_templates"
    /\ available_templates' = parse_templates(templates, template_paths)
    /\ pc' = "concatenate_templates"
    /\ UNCHANGED <<config, fs_dirs, fs_files, conf_i, walk_stack, template_paths, templates,
                   file_state, template_string, consolidation_string, result, log,
                   output_file>>

\* generate_gitignore, second call: concatenate_templates(..)?
ConcatenateTemplates ==
    /\ UNCHANGED run_vars
    /\ pc = "concatenate_templates"
    /\ LET r == concatenate_templates(templates, available_templates, file_state)
       IN  /\ template_string' = r.template_string
           /\ consolidation_string' = r.return_string
           /\ log' = log \o r.log
           /\ result' = IF r.result.status = "Ok" THEN result ELSE r.result
           /\ pc' = IF r.result.status = "Ok" THEN "write_gitignore" ELSE "generate_failed"
    /\ UNCHANGED <<config, fs_dirs, fs_files, conf_i, walk_stack, template_paths, templates,
                   file_state, available_templates, output_file>>

\* How far OpenOptions::open, set_len(0) and write_all get.
WriteOutcomes == {"ok", "open_err", "set_len_err", "write_err"}

\* The destination had write_all written over it from offset 0 without
\* set_len(0): what lies beyond the written bytes stays.
consolidation_file_untruncated(previous, document, outcome, written) ==
    LET bytes == IF outcome = "ok" THEN document ELSE SubSeq(document, 1, written)
    IN  IF outcome = "open_err" THEN previous
        ELSE IF outcome = "set_len_err"
        THEN [exists |-> TRUE, content |-> previous.content]
        ELSE [exists |-> TRUE,
              content |-> bytes \o SubSeq(previous.content, Len(bytes) + 1,
                                          Len(previous.content))]

\* The destination after OpenOptions (read, write, create) opened it,
\* set_len(0) truncated it and write_all wrote the document from offset 0:
\* open creates an absent file and leaves the content, set_len(0) empties
\* it, a write_all that fails has written some of the document's bytes.
consolidation_file(previous, document, outcome, written) ==
    IF outcome = "open_err" THEN previous
    ELSE IF outcome = "set_len_err"
    THEN [exists |-> TRUE, content |-> previous.content]
    ELSE IF outcome = "write_err"
    THEN [exists |-> TRUE, content |-> SubSeq(document, 1, written)]
    ELSE [exists |-> TRUE, content |-> document]

\* generate_gitignore, the rest: open (creating) the destination, truncate
\* it, write the document.
WriteGitignore ==
    /\ UNCHANGED run_vars
    /\ pc = "write_gitignore"
    /\ \E outcome \in WriteOutcomes, written \in {0, Len(consolidation_string) - 1} :
          /\ (outcome # "write_err" => written = 0)
          /\ output_file' = consolidation_file(output_file, consolidation_string,
                                                outcome, written)
          /\ result' = IF outcome = "ok" THEN Ok ELSE ErrIo
          /\ pc' = IF outcome = "ok" THEN "generate_done" ELSE "generate_failed"
    /\ UNCHANGED <<config, fs_dirs, fs_files, conf_i, walk_stack, template_paths, templates,
                   file_state, available_templates, template_string, consolidation_string,
                   log>>

NextGen ==
    \/ ParseTemplates
    \/ ConcatenateTemplates
    \/ WriteGitignore

SpecGen == InitGen /\ [][NextGen]_vars

-----------------------------------------------------------------------------
(* What the claims about generate_gitignore speak of, read off the state.   *)

\* concatenate_templates has returned.
Concatenated == pc \in {"write_gitignore", "generate_done", "generate_failed"}

\* The bodies of the files of a selected template that open and read, in
\* the index's file-path order.
RECURSIVE ReadableBodies(_)
ReadableBodies(file_paths) ==
    IF file_paths = <<>> THEN <<>>
    ELSE (IF file_state[Head(file_paths)].status = "ok"
          THEN <<file_state[Head(file_paths)].content>> ELSE <<>>)
         \o ReadableBodies(Tail(file_paths))

BodySet(k) ==
    LET bodies == ReadableBodies(available_templates[k])
    IN  {bodies[i] : i \in 1..Len(bodies)}

\* Some file of a selected template opens but cannot be read.
SomeReadFails ==
    \E k \in DOMAIN available_templates : \E i \in 1..Len(available_templates[k]) :
        file_state[available_templates[k][i]].status = "read_err"

\* Every file of every selected template fails to open.
AllOpensFail ==
    \A k \in DOMAIN available_templates : \A i \in 1..Len(available_templates[k]) :
        file_state[available_templates[k][i]].status = "open_err"

\* The text of a block around its content.
BlockOpening(k) == <<"\n", "#", " ">> \o k \o <<"\n", "#", " ", "-", "-", "-", "-", "\n">>
BlockClosing == <<"#", " ", "-", "-", "-", "-", "\n">>
SupplementMarker(k) == <<"\n", "#", " ">> \o k \o <<" ", "s", "u", "p", "p", "l", "e", "m", "e", "n", "t", "a", "r", "y", " ", "c", "o", "n", "t", "e", "n", "t", "\n", "#", " ", "*", "*", "*", "*", "\n">>

\* The content of a block: what stands between its opening and its closing.
BlockContent(k) ==
    SubSeq(template_string[k], Len(BlockOpening(k)) + 1,
           Len(template_string[k]) - Len(BlockClosing))

BlockWellFormed(k) ==
    /\ StartsWith(template_string[k], BlockOpening(k))
    /\ EndsWith(template_string[k], BlockClosing)
    /\ Len(template_string[k]) >= Len(BlockOpening(k)) + Len(BlockClosing)

\* Where the supplementary marker starts in the content of a block.
MarkerPositions(k) ==
    LET content == BlockContent(k)
        marker == SupplementMarker(k)
    IN  {i \in 0..(Len(content) - Len(marker)) :
            SubSeq(content, i + 1, i + Len(marker)) = marker}

Min(S) == CHOOSE x \in S : \A y \in S : x <= y

\* The primary content of a block: its content up to the supplementary
\* marker, or all of it when there is none.
PrimaryInBlock(k) ==
    LET at == MarkerPositions(k)
    IN  IF at = {} THEN BlockContent(k) ELSE SubSeq(BlockContent(k), 1, Min(at))

\* The lines between the `# ****` delimiters of a block.
DelimiterLines(k) ==
    LET lines == Lines(template_string[k])
    IN  {i \in 1..Len(lines) : lines[i] = TEMPLATE_SUPPLEMENT_DELIMITER}
SupplementInBlock(k) ==
    LET at == DelimiterLines(k)
    IN  IF at = {} THEN <<>>
        ELSE SubSeq(Lines(template_string[k]), Min(at) + 1, Max(at) - 1)

LineSet(body) == LET lines == Lines(body) IN {lines[i] : i \in 1..Len(lines)}
TrimmedLineSet(body) == {Trim(line) : line \in LineSet(body)}
HasGlyph(line) == \E i \in 1..Len(line) : line[i] = "*" \/ line[i] = "/" \/ line[i] = "!"

-----------------------------------------------------------------------------
Requested == {templates[i] : i \in 1..Len(templates)}

(* C3 (src/src/app.rs:331-353).  parse_templates returns the restriction of *)
(* the index to the requested names: a key is in the result iff it was      *)
(* requested and is, letter for letter, a key of the index, and it maps to  *)
(* the index's path sequence.  Requested names without a match raise no     *)
(* error while some name resolves: the "could not locate" failure is raised *)
(* only when none resolves, any other failure comes from the files, and the *)
(* document holds blocks for resolved names only.                           *)
C3_SelectionIsRestriction ==
    /\ pc # "parse_templates" =>
          /\ DOMAIN available_templates = Requested \cap DOMAIN template_paths
          /\ \A k \in DOMAIN available_templates :
                available_templates[k] = template_paths[k]
    /\ Concatenated =>
          /\ (\E i \in 1..Len(log) : log[i] = WarnLocate(templates))
                <=> Requested \cap DOMAIN template_paths = {}
          /\ (pc = "generate_failed" /\ Requested \cap DOMAIN template_paths # {})
                => (SomeReadFails \/ AllOpensFail \/ consolidation_string # <<>>)
          /\ \A k \in TemplateNames :
                Contains(consolidation_string, BlockOpening(k))
                    => k \in Requested \cap DOMAIN template_paths

\* A document was assembled for a request that names a template of the
\* index and a name that is not in it, over an index that holds a template
\* differing from a requested name by case only.
C3_Witness ==
    /\ pc = "write_gitignore"
    /\ templates = <<t_c, t_X>>
    /\ {t_C, t_c} \subseteq DOMAIN template_paths
    /\ DOMAIN available_templates = {t_c}

NoBlockCase == DOMAIN available_templates = {} \/ AllOpensFail

C5_IdenticalBodiesOnce ==
    (Concatenated /\ ~SomeReadFails) =>
        \A k \in DOMAIN available_templates :
            (Len(ReadableBodies(available_templates[k])) >= 2
                /\ Cardinality(BodySet(k)) = 1) =>
                /\ k \in DOMAIN template_string
                /\ template_string[k] =
                      BlockOpening(k) \o ReadableBodies(available_templates[k])[1]
                          \o BlockClosing
                /\ ~Contains(template_string[k], TEMPLATE_SUPPLEMENT_DELIMITER)
                /\ Contains(consolidation_string, template_string[k])

\* Both repositories provide the same two-line body for the template.
C5_Witness ==
    /\ pc = "write_gitignore"
    /\ p_C2 \in DOMAIN file_state
    /\ file_state[p_C1] = File("ok", <<"*", "a", "\n", " ", "b", "/", " ", "\n">>)
    /\ file_state[p_C2] = File("ok", <<"*", "a", "\n", " ", "b", "/", " ", "\n">>)
    /\ t_C \in DOMAIN template_string

(* C6 (src/src/app.rs:160-233).  When more than one distinct body remains   *)
(* for a template, the primary content of its block is the content of the   *)
(* first readable file in the index's file-path order.                      *)
C6_PrimaryIsFirstReadable ==
    (Concatenated /\ ~SomeReadFails) =>
        \A k \in DOMAIN available_templates :
            Cardinality(BodySet(k)) > 1 =>
                /\ k \in DOMAIN template_string
                /\ BlockWellFormed(k)
                /\ PrimaryInBlock(k) = ReadableBodies(available_templates[k])[1]

(* C7 (src/src/app.rs:235-258).  For a template with more than one distinct *)
(* body, every line of a body other than the primary content that, trimmed, *)
(* holds one of `*`, `/`, `!` and equals no trimmed line of the primary     *)
(* content stands, trimmed, in the supplementary section.                   *)
C7_MergeComplete ==
    (Concatenated /\ ~SomeReadFails) =>
        \A k \in DOMAIN available_templates :
            Cardinality(BodySet(k)) > 1 =>
                /\ k \in DOMAIN template_string
                /\ LET section == SupplementInBlock(k)
                       primary == PrimaryInBlock(k)
                       covered == TrimmedLineSet(primary)
                   IN  \A body \in BodySet(k) \ {primary} :
                          \A line \in TrimmedLineSet(body) :
                              (HasGlyph(line) /\ line \notin covered)
                                  => \E i \in 1..Len(section) : section[i] = line

(* C8 (src/src/app.rs:222-271, 43-46).  Every line between the `# ****`     *)
(* delimiters of a block is a trimmed line of a readable body other than    *)
(* the block's primary content, holds one of `*`, `/`, `!`, is no line of   *)
(* the primary content and stands once in the section; the marker and the   *)
(* two delimiters are there iff the section holds a line, and without them  *)
(* the block's content is one of the bodies, unchanged.                     *)
C8_SupplementSound ==
    Concatenated =>
        \A k \in DOMAIN template_string :
            LET section == SupplementInBlock(k)
                primary == PrimaryInBlock(k)
                primary_lines == LineSet(primary) \cup TrimmedLineSet(primary)
                other_lines == UNION {TrimmedLineSet(body) : body \in BodySet(k) \ {primary}}
            IN  /\ BlockWellFormed(k)
                /\ primary \in BodySet(k)
                /\ \A i \in 1..Len(section) :
                      /\ section[i] \in other_lines
                      /\ HasGlyph(section[i])
                      /\ section[i] \notin primary_lines
                      /\ \A j \in 1..Len(section) : section[j] = section[i] => j = i
                /\ (MarkerPositions(k) # {}) <=> (Len(section) >= 1)
                /\ Cardinality(MarkerPositions(k)) <= 1
                /\ Cardinality(DelimiterLines(k)) = (IF Len(section) >= 1 THEN 2 ELSE 0)
                /\ MarkerPositions(k) = {} => BlockContent(k) = primary

\* A block with a supplementary section of two lines.
C8_Witness ==
    /\ pc = "write_gitignore"
    /\ t_C \in DOMAIN template_string
    /\ Len(SupplementInBlock(t_C)) = 2
    /\ Cardinality(BodySet(t_C)) = 2

(* C9 (src/src/app.rs:236-247, 43-46).  No blank line, no comment line (its *)
(* first non-blank character is '#') and no plain file name is ever         *)
(* appended to the supplementary section.                                   *)
C9_NoCommentaryInSupplement ==
    Concatenated =>
        \A k \in DOMAIN template_string :
            LET section == SupplementInBlock(k)
            IN  \A i \in 1..Len(section) :
                    /\ Trim(section[i]) # <<>>
                    /\ Head(Trim(section[i])) # "#"
                    /\ HasGlyph(section[i])

HasReadable(k) == ReadableBodies(available_templates[k]) # <<>>

(* C10 (src/src/app.rs:162-185).  A template file that cannot be opened or  *)
(* read is skipped without aborting the run: every selected template with   *)
(* a readable file still gets its block, a template whose files all fail    *)
(* gets none, and the consolidation fails only if that leaves no block.     *)
C10_UnreadableFileSkipped ==
    Concatenated =>
        /\ \A k \in DOMAIN available_templates : HasReadable(k) <=> k \in DOMAIN template_string
        /\ (\E k \in DOMAIN available_templates : HasReadable(k))
              => (pc # "generate_failed" \/ consolidation_string # <<>>)

-----------------------------------------------------------------------------
\* The header of a document and the start of its summary line.
DocumentHeader == <<"#", "\n", "#", " ", ".", "g", "i", "t", "i", "g", "n", "o", "r", "e", "\n", "#", "\n", "\n">>
SummaryStart == <<"#", " ", "T", "e", "m", "p", "l", "a", "t", "e", "s", " ", "u", "s", "e", "d", ":">>

\* The orders in which a set of template names can be listed, each once.
Orders(S) ==
    {o \in [1..Cardinality(S) -> S] : \A i, j \in 1..Cardinality(S) : o[i] = o[j] => i = j}

\* A document laid out over the blocks of `order`: header, summary line
\* naming them in that order, then their blocks in that order.
LaidOut(document, order) ==
    document = DocumentHeader
                 \o SummaryStart \o Concat([i \in 1..Len(order) |-> <<" ">> \o order[i]]) \o <<"\n">>
                 \o Concat([i \in 1..Len(order) |-> template_string[order[i]]])

(* C11 (src/src/app.rs:155-218).  The document concatenate_templates        *)
(* returns is the fixed header, then one "Templates used:" line that names  *)
(* exactly the templates for which a block was emitted (each once, in block *)
(* order, none whose files all failed), then those blocks in that order.    *)
C11_DocumentLayout ==
    pc \in {"write_gitignore", "generate_done"} =>
        /\ DOMAIN template_string = {k \in DOMAIN available_templates : HasReadable(k)}
        /\ \A k \in DOMAIN template_string : BlockWellFormed(k)
        /\ \E order \in Orders(DOMAIN template_string) : LaidOut(consolidation_string, order)

\* A document of two blocks.
C11_Witness ==
    /\ pc = "write_gitignore"
    /\ Cardinality(DOMAIN template_string) = 2

\* A document of one block, for a request that also selected a template
\* whose files all failed to open.
C11_DroppedReached ==
    /\ pc = "write_gitignore"
    /\ Cardinality(DOMAIN template_string) = 1
    /\ Cardinality(DOMAIN available_templates) = 2

-----------------------------------------------------------------------------
(* list_templates: the names of the index, printed in columns.              *)

\* The column at which a line of the list is wrapped.
TEMPLATE_LIST_OUTPUT_LIMIT == 78

\* str::to_lowercase, on the letters of the model.
Lower(c) == CASE c = "C" -> "c" [] c = "X" -> "x" [] OTHER -> c
to_lowercase(s) == [i \in 1..Len(s) |-> Lower(s[i])]

\* template_identifiers.sort_by(|a, b| a.to_lowercase().cmp(&b.to_lowercase())):
\* a stable sort, names that differ by case only keep the order of the keys.
RECURSIVE InsertByLowercase(_, _)
InsertByLowercase(x, v) ==
    IF v = <<>> THEN <<x>>
    ELSE IF StrLess(to_lowercase(x), to_lowercase(Head(v))) THEN <<x>> \o v
    ELSE <<Head(v)>> \o InsertByLowercase(x, Tail(v))
RECURSIVE SortByLowercase(_)
SortByLowercase(v) ==
    IF v = <<>> THEN <<>>
    ELSE InsertByLowercase(v[Len(v)], SortByLowercase(SubSeq(v, 1, Len(v) - 1)))

\* max_item_length: the length of the longest name, plus one.
max_item_length(template_identifiers) ==
    Max({Len(template_identifiers[i]) : i \in 1..Len(template_identifiers)} \cup {0}) + 1

\* A plausible slip: the name is printed without its padding.
key_string_unpadded(key, width) == key

\* key_string: the name followed by spaces up to max_item_length.
key_string(key, width) == key \o [i \in 1..(width - Len(key)) |-> " "]

\* The loop that fills template_list: a name goes on the current line if
\* the line stays within the limit, else it starts the next line.
RECURSIVE ListLoop(_, _, _, _)
ListLoop(template_identifiers, width, template_list, template_list_line_len) ==
    IF template_identifiers = <<>> THEN template_list
    ELSE IF template_list_line_len + width <= TEMPLATE_LIST_OUTPUT_LIMIT
    THEN ListLoop(Tail(template_identifiers), width,
                  template_list \o key_string(Head(template_identifiers), width),
                  template_list_line_len + width)
    ELSE ListLoop(Tail(template_identifiers), width,
                  template_list \o <<"\n">> \o key_string(Head(template_identifiers), width),
                  width)

\* list_templates: what println! writes for an index.
list_templates(paths) ==
    LET template_identifiers == SortByLowercase(SortedKeys(paths))
    IN  ListLoop(template_identifiers, max_item_length(template_identifiers), <<>>, 0)
            \o <<"\n">>

\* Largest number of template names in a listed index.
MaxNames == 4

\* Template names of one letter and of 25, 38, 77 and 78 characters: a
\* letter, then a character that goes with the length.
Fill(n) == CASE n = 25 -> "1" [] n = 38 -> "2" [] n = 77 -> "-" [] OTHER -> "."
NameOf(c, n) == [i \in 1..n |-> IF i = 1 THEN c ELSE Fill(n)]
ListNames ==
    {NameOf(c, n) : c \in {"C", "a", "X"}, n \in {1, 25, 38}}
        \cup {t_c, NameOf("a", 77), NameOf("a", 78)}

\* An index of up to MaxNames of these names.
InitList ==
    /\ \E names \in SUBSET ListNames :
          /\ Cardinality(names) <= MaxNames
          /\ template_paths = [k \in names |-> <<<<r1, k \o <<".", "g">>>>>>]
    /\ config = <<RepoConfig(r1, "cached")>>
    /\ fs_dirs = {<<r1>>}
    /\ fs_files = {}
    /\ conf_i = 1
    /\ walk_stack = <<>>
    /\ templates = <<>>
    /\ file_state = EmptyMap
    /\ available_templates = EmptyMap
    /\ template_string = EmptyMap
    /\ consolidation_string = <<>>
    /\ result = NoResult
    /\ log = <<>>
    /\ output_file = AbsentFile
    /\ pc = "list_templates"
    /\ RunIdle

\* list_templates, after generate_template_paths returned the index.
ListTemplates ==
    /\ pc = "list_templates"
    /\ stdout' = stdout \o list_templates(template_paths)
    /\ result' = Ok
    /\ pc' = "list_done"
    /\ UNCHANGED <<config, fs_dirs, fs_files, conf_i, walk_stack, template_paths, templates,
                   file_state, available_templates, template_string, consolidation_string,
                   log, output_file, clock, state, disk, operation, git_repos, refresh,
                   is_stale, exit_status, runs, writes>>

NextList == ListTemplates

SpecList == InitList /\ [][NextList]_vars

-----------------------------------------------------------------------------
(* A run of the program: main, RuntimeConfig::load, State, Config, run.     *)

\* Largest number of runs of the program, one after the other.
MaxRuns == 2

SECONDS_IN_DAY == 60 * 60 * 24
REPO_UPDATE_LIMIT == SECONDS_IN_DAY * 7

\* A plausible slip: a cache as old as the limit counts as stale.
check_staleness_inclusive(last_update, now) ==
    IF now < last_update THEN "Err"
    ELSE IF now - last_update >= REPO_UPDATE_LIMIT \/ now = last_update
    THEN "Stale" ELSE "Fresh"

\* A plausible slip: a last update later than now counts as no time passed.
check_staleness_saturating(last_update, now) ==
    IF now > last_update /\ now - last_update > REPO_UPDATE_LIMIT THEN "Stale"
    ELSE IF now = last_update THEN "Stale" ELSE "Fresh"

\* State::check_staleness: duration_since(..)? fails for a last update that
\* is later than now.
check_staleness(last_update, now) ==
    IF now < last_update THEN "Err"
    ELSE IF now - last_update > REPO_UPDATE_LIMIT \/ now = last_update
    THEN "Stale" ELSE "Fresh"

\* State::new(now)
StateNew(now) == [last_update |-> now - 1]

\* The files of a run.
STATE_FILE_PATH_SUFFIX == "ignore/.state"
DEFAULT_CONFIG_PATH == "ignore/config.toml"
Bak(path) == IF path = STATE_FILE_PATH_SUFFIX THEN "ignore/.state.bak" ELSE "ignore/config.toml.bak"
DiskPaths == {STATE_FILE_PATH_SUFFIX, DEFAULT_CONFIG_PATH, Bak(STATE_FILE_PATH_SUFFIX), Bak(DEFAULT_CONFIG_PATH)}

\* File content is a sequence of items: the documents toml::to_string
\* writes, and text that is not TOML.
GarbageState == [kind |-> "garbage", value |-> 0]
GarbageConfig == [kind |-> "garbage", value |-> <<>>]
\* A plausible slip: the time is written one second off.
StateToml_shifted(st) == <<[kind |-> "last_update", value |-> st.last_update + 1]>>
StateToml(st) == <<[kind |-> "last_update", value |-> st.last_update]>>
ConfigToml(cfg) == <<[kind |-> "repository", value |-> cfg]>>

\* toml::from_str: one document parses, anything else in a non-empty file
\* does not.
ParsesAs(content, kind) == Len(content) = 1 /\ content[1].kind = kind

\* Config::default(): the one default repository, not updated automatically.
ConfigDefault == <<[auto_update |-> FALSE, skip |-> FALSE, path |-> r1, url |-> url_remote]>>

Operations ==
    {"GenerateGitignore", "UpdateRepositories", "ListAvailableTemplates", "GenerateCompletions"}

\* What clap_complete::generate prints.
CompletionScript == <<"c", "o", "m", "p", "l", "e", "t", "e", "\n">>

\* The repositories a config file may name: updated automatically or only
\* on request, with or without a URL.
RefreshKinds == {"auto", "manual", "auto_no_url"}
RefreshConfig(path, kind) ==
    [auto_update |-> (kind # "manual"),
     skip |-> FALSE,
     path |-> path,
     url |-> IF kind = "auto_no_url" THEN <<>> ELSE url_remote]
Configs == {<<RefreshConfig(r1, k1), RefreshConfig(r2, k2)>> : k1 \in RefreshKinds, k2 \in RefreshKinds}

\* The clock at the first run, late enough for a state file older than the
\* limit.
FirstRunAt == SECONDS_IN_DAY * 8

\* The state file before the first run: absent, not TOML, or written by a
\* run that long ago (or, after the clock was set back, in the future).
LastUpdates ==
    {FirstRunAt - SECONDS_IN_DAY * 8, FirstRunAt - REPO_UPDATE_LIMIT,
     FirstRunAt - SECONDS_IN_DAY, FirstRunAt, FirstRunAt + SECONDS_IN_DAY}
StateFiles ==
    {AbsentFile, [exists |-> TRUE, content |-> <<GarbageState>>]}
        \cup {[exists |-> TRUE, content |-> StateToml([last_update |-> t])] : t \in LastUpdates}
ConfigFiles ==
    {AbsentFile, [exists |-> TRUE, content |-> <<GarbageConfig>>]}
        \cup {[exists |-> TRUE, content |-> ConfigToml(cfg)] : cfg \in Configs}

\* What a process starts with: RuntimeConfig::default() and nothing done.
ProcessStart ==
    /\ config = ConfigDefault
    /\ conf_i = 1
    /\ walk_stack = <<>>
    /\ available_templates = EmptyMap
    /\ template_string = EmptyMap
    /\ consolidation_string = <<>>
    /\ result = NoResult
    /\ log = <<>>
    /\ refresh = <<>>
    /\ is_stale = "none"
    /\ exit_status = "none"
    /\ writes = 0
    /\ stdout = <<>>
    /\ pc = "state_load"

InitRun ==
    /\ clock = FirstRunAt
    /\ state = [last_update |-> FirstRunAt]
    /\ \E sf \in StateFiles, cf \in ConfigFiles :
          disk = [p \in DiskPaths |->
                    IF p = STATE_FILE_PATH_SUFFIX THEN sf
                    ELSE IF p = DEFAULT_CONFIG_PATH THEN cf ELSE AbsentFile]
    /\ operation \in Operations
    /\ git_repos \in SUBSET {r1, r2}
    /\ fs_dirs = {<<p>> : p \in git_repos}
    /\ fs_files = {}
    /\ template_paths = (t_C :> <<p_C1>>)
    /\ file_state = (p_C1 :> File("ok", <<"*", "a", "\n">>))
    /\ templates \in {<<t_C>>, <<t_X>>}
    /\ (operation # "GenerateGitignore" => templates = <<t_C>>)
    /\ output_file = AbsentFile
    /\ runs = 1
    /\ ProcessStart

\* RuntimeConfig::load, first part: State::new(&now).load().
StateLoad ==
    /\ UNCHANGED stdout
    /\ pc = "state_load"
    /\ LET file == disk[STATE_FILE_PATH_SUFFIX]
           fresh == StateNew(clock)
       IN  \E created \in BOOLEAN :
             IF ~file.exists /\ ~created
             THEN \* create_file(..)? fails: load returns the error to main
                  /\ result' = ErrIo
                  /\ pc' = "main"
                  /\ UNCHANGED <<state, disk>>
             ELSE IF file.content # <<>> /\ ParsesAs(file.content, "last_update")
             THEN /\ state' = [last_update |-> file.content[1].value]
                  /\ pc' = "config_load"
                  /\ UNCHANGED <<disk, result>>
             ELSE \* update_file writes where read_to_string left the cursor
                  /\ state' = fresh
                  /\ disk' = [disk EXCEPT ![STATE_FILE_PATH_SUFFIX] =
                                [exists |-> TRUE, content |-> file.content \o StateToml(fresh)]]
                  /\ pc' = "config_load"
                  /\ UNCHANGED result
    /\ UNCHANGED <<config, fs_dirs, fs_files, conf_i, walk_stack, template_paths, templates,
                   file_state, available_templates, template_string, consolidation_string,
                   log, output_file, clock, operation, git_repos, refresh, is_stale,
                   exit_status, runs, writes>>

\* What set_len(0) followed by a write at the old cursor leaves before the
\* written text.
NulBytes == [kind |-> "nul", value |-> <<>>]

\* RuntimeConfig::load, second part: Config::load, whose error is logged and
\* dropped, then configure_operation.
ConfigLoad ==
    /\ UNCHANGED stdout
    /\ pc = "config_load"
    /\ LET file == disk[DEFAULT_CONFIG_PATH]
       IN  \E copied \in BOOLEAN :
             IF file.content # <<>> /\ ParsesAs(file.content, "repository")
             THEN /\ config' = file.content[1].value
                  /\ UNCHANGED <<disk, log>>
             ELSE IF file.content # <<>> /\ ~copied
             THEN \* std::fs::copy(..)? fails
                  /\ log' = Append(log, [level |-> "error",
                                         text |-> "config load error, using the default",
                                         arg |-> <<>>])
                  /\ UNCHANGED <<config, disk>>
             ELSE /\ disk' = [disk EXCEPT
                                ![Bak(DEFAULT_CONFIG_PATH)] =
                                    IF file.content # <<>>
                                    THEN [exists |-> TRUE, content |-> file.content] ELSE @,
                                ![DEFAULT_CONFIG_PATH] =
                                    [exists |-> TRUE,
                                     content |-> (IF file.content # <<>> THEN <<NulBytes>> ELSE <<>>)
                                                    \o ConfigToml(config)]]
                  /\ UNCHANGED <<config, log>>
    /\ pc' = "check_staleness"
    /\ UNCHANGED <<fs_dirs, fs_files, conf_i, walk_stack, template_paths, templates,
                   file_state, available_templates, template_string, consolidation_string,
                   result, output_file, clock, state, operation, git_repos, refresh,
                   is_stale, exit_status, runs, writes>>

\* Nothing of a refresh cycle has been done yet.
RefreshStart ==
    [i \in 1..Len(config) |-> [pc |-> "pending", how |-> "none", outcome |-> "none", attempts |-> 0]]

\* run, first line: check_staleness(&SystemTime::now())?
CheckStaleness ==
    /\ UNCHANGED stdout
    /\ pc = "check_staleness"
    /\ is_stale' = check_staleness(state.last_update, clock)
    /\ IF is_stale' = "Err"
       THEN /\ result' = [status |-> "Err", kind |-> "time", message |-> <<"t", "i", "m", "e">>]
            /\ pc' = "main"
       ELSE /\ result' = result
            /\ pc' = IF is_stale' = "Stale" THEN "update_gitignore_repos" ELSE "operation"
    /\ refresh' = IF is_stale' = "Stale" THEN RefreshStart ELSE refresh
    /\ UNCHANGED <<config, fs_dirs, fs_files, conf_i, walk_stack, template_paths, templates,
                   file_state, available_templates, template_string, consolidation_string,
                   log, output_file, clock, state, disk, operation, git_repos,
                   exit_status, runs, writes>>

\* A plausible slip: the update operation does not widen the selection.
update_cond_auto_only(conf) == conf.url # <<>> /\ conf.auto_update

\* update_cond of update_gitignore_repos
update_cond(conf) ==
    conf.url # <<>> /\ (conf.auto_update \/ operation = "UpdateRepositories")

\* The refresh of one repository: fetch and hard reset when
\* Repository::discover finds it, else fetch_repository clones it.
RefreshHow(conf) == IF conf.path \in git_repos THEN "fetch_reset" ELSE "clone"
Refreshed(r, conf, ok) ==
    [pc |-> "done", how |-> RefreshHow(conf),
     outcome |-> IF ok THEN "ok" ELSE "err", attempts |-> r.attempts + 1]

Pending == {i \in 1..Len(refresh) : refresh[i].pc = "pending"}

\* app.rs, update_gitignore_repos: one iteration of the loop over the
\* configured repositories; every git2 error leaves the function with `?`.
UpdateGitignoreReposStep ==
    /\ UNCHANGED stdout
    /\ pc = "update_gitignore_repos"
    /\ Pending # {}
    /\ LET i == Min(Pending)
           conf == config[i]
       IN  IF ~update_cond(conf)
           THEN /\ refresh' = [refresh EXCEPT ![i].pc = "skipped"]
                /\ UNCHANGED <<git_repos, fs_dirs, result, pc>>
           ELSE \E ok \in BOOLEAN :
                  /\ refresh' = [refresh EXCEPT ![i] = Refreshed(@, conf, ok)]
                  /\ git_repos' = IF ok THEN git_repos \cup {conf.path} ELSE git_repos
                  /\ fs_dirs' = IF ok THEN fs_dirs \cup {absolute_repo_path(conf)} ELSE fs_dirs
                  /\ result' = IF ok THEN result ELSE ErrGit
                  /\ pc' = IF ok THEN pc ELSE "main"
    /\ UNCHANGED <<config, fs_files, conf_i, walk_stack, template_paths, templates,
                   file_state, available_templates, template_string, consolidation_string,
                   log, output_file, clock, state, disk, operation, is_stale,
                   exit_status, runs, writes>>

\* app.rs, update_gitignore_repos after the loop: last_update = now, Ok(()),
\* and where run goes on from the call.
UpdateGitignoreReposReturn ==
    /\ UNCHANGED stdout
    /\ pc = "update_gitignore_repos"
    /\ Pending = {}
    /\ state' = [state EXCEPT !.last_update = clock]
    /\ writes' = writes + 1
    /\ pc' = IF is_stale = "Stale" /\ operation # "UpdateRepositories"
             THEN "operation" ELSE "save_to_file"
    /\ UNCHANGED <<config, fs_dirs, fs_files, conf_i, walk_stack, template_paths, templates,
                   file_state, available_templates, template_string, consolidation_string,
                   result, log, output_file, clock, disk, operation, git_repos, refresh,
                   is_stale, exit_status, runs>>

\* run: match app_confg.operation
RunOperation ==
    /\ pc = "operation"
    /\ \/ /\ operation = "GenerateGitignore"
          /\ pc' = "parse_templates"
          /\ UNCHANGED <<result, refresh, stdout>>
       \/ /\ operation = "ListAvailableTemplates"
          /\ \E listed \in BOOLEAN :
                /\ result' = IF listed THEN Ok ELSE ErrIo
                /\ stdout' = IF listed THEN stdout \o list_templates(template_paths)
                              ELSE stdout
                /\ pc' = IF listed THEN "save_to_file" ELSE "main"
          /\ UNCHANGED refresh
       \/ /\ operation = "UpdateRepositories"
          /\ refresh' = RefreshStart
          /\ pc' = "update_gitignore_repos"
          /\ UNCHANGED <<result, stdout>>
       \/ /\ operation = "GenerateCompletions"
          /\ stdout' = stdout \o CompletionScript
          /\ result' = Ok
          /\ pc' = "save_to_file"
          /\ UNCHANGED refresh
    /\ UNCHANGED <<config, fs_dirs, fs_files, conf_i, walk_stack, template_paths, templates,
                   file_state, available_templates, template_string, consolidation_string,
                   log, output_file, clock, state, disk, operation, git_repos, is_stale,
                   exit_status, runs, writes>>

\* run: generate_gitignore(&mut app_confg)? has returned.
GenerateReturn ==
    /\ UNCHANGED stdout
    /\ pc \in {"generate_done", "generate_failed"}
    /\ pc' = IF pc = "generate_done" THEN "save_to_file" ELSE "main"
    /\ UNCHANGED <<config, fs_dirs, fs_files, conf_i, walk_stack, template_paths, templates,
                   file_state, available_templates, template_string, consolidation_string,
                   result, log, output_file, clock, state, disk, operation, git_repos,
                   refresh, is_stale, exit_status, runs, writes>>

\* State::save_to_file: open with truncate(true), then update_file.
SaveToFile ==
    /\ UNCHANGED stdout
    /\ pc = "save_to_file"
    /\ \E saved \in BOOLEAN :
          /\ disk' = IF saved
                     THEN [disk EXCEPT ![STATE_FILE_PATH_SUFFIX] =
                              [exists |-> TRUE, content |-> StateToml(state)]]
                     ELSE disk
          /\ result' = IF saved THEN Ok ELSE ErrIo
    /\ pc' = "main"
    /\ UNCHANGED <<config, fs_dirs, fs_files, conf_i, walk_stack, template_paths, templates,
                   file_state, available_templates, template_string, consolidation_string,
                   log, output_file, clock, state, operation, git_repos, refresh,
                   is_stale, exit_status, runs, writes>>

\* main: an error of load or run is logged with error!, and main returns.
MainReturn ==
    /\ UNCHANGED stdout
    /\ pc = "main"
    /\ log' = IF result.status = "Err"
              THEN Append(log, [level |-> "error", text |-> "Application error",
                                arg |-> result.kind])
              ELSE log
    /\ exit_status' = 0
    /\ pc' = "exited"
    /\ UNCHANGED <<config, fs_dirs, fs_files, conf_i, walk_stack, template_paths, templates,
                   file_state, available_templates, template_string, consolidation_string,
                   result, output_file, clock, state, disk, operation, git_repos, refresh,
                   is_stale, runs, writes>>

\* The time between the end of one run and the start of the next.
Gaps == {1, SECONDS_IN_DAY, REPO_UPDATE_LIMIT, REPO_UPDATE_LIMIT + 1}

\* The program is started again, later, on what the last run left on disk.
StartNextRun ==
    /\ pc = "exited"
    /\ runs < MaxRuns
    /\ runs' = runs + 1
    /\ \E gap \in Gaps : clock' = clock + gap
    /\ state' = [last_update |-> clock']
    /\ operation' \in Operations
    /\ config' = ConfigDefault
    /\ conf_i' = 1
    /\ walk_stack' = <<>>
    /\ available_templates' = EmptyMap
    /\ template_string' = EmptyMap
    /\ consolidation_string' = <<>>
    /\ result' = NoResult
    /\ log' = <<>>
    /\ refresh' = <<>>
    /\ is_stale' = "none"
    /\ exit_status' = "none"
    /\ writes' = 0
    /\ stdout' = <<>>
    /\ pc' = "state_load"
    /\ UNCHANGED <<fs_dirs, fs_files, template_paths, templates, file_state, output_file,
                   disk, git_repos>>

NextRun ==
    \/ StateLoad
    \/ ConfigLoad
    \/ CheckStaleness
    \/ UpdateGitignoreReposStep
    \/ UpdateGitignoreReposReturn
    \/ RunOperation
    \/ ParseTemplates
    \/ ConcatenateTemplates
    \/ WriteGitignore
    \/ GenerateReturn
    \/ SaveToFile
    \/ MainReturn
    \/ StartNextRun

SpecRun == InitRun /\ [][NextRun]_vars

-----------------------------------------------------------------------------
(* git.rs: update_gitignore_repos over a rayon par_iter().for_each.         *)

InitPar ==
    /\ clock = FirstRunAt
    /\ state = [last_update |-> FirstRunAt - SECONDS_IN_DAY * 8]
    /\ disk = [p \in DiskPaths |-> AbsentFile]
    /\ config \in Configs
    /\ operation \in {"GenerateGitignore", "UpdateRepositories"}
    /\ git_repos \in SUBSET {r1, r2}
    /\ fs_dirs = {<<p>> : p \in git_repos}
    /\ fs_files = {}
    /\ conf_i = 1
    /\ walk_stack = <<>>
    /\ template_paths = EmptyMap
    /\ templates = <<>>
    /\ file_state = EmptyMap
    /\ available_templates = EmptyMap
    /\ template_string = EmptyMap
    /\ consolidation_string = <<>>
    /\ result = NoResult
    /\ log = <<>>
    /\ output_file = AbsentFile
    /\ refresh = RefreshStart
    /\ is_stale = "Stale"
    /\ exit_status = "none"
    /\ runs = 1
    /\ writes = 0
    /\ stdout = <<>>
    /\ pc = "par_for_each"

\* A plausible slip: last_update is assigned without waiting for the tasks.
Joined_nobarrier == TRUE

\* for_each returns once the closure has returned for every element.
Joined == \A i \in 1..Len(refresh) : refresh[i].pc \in {"done", "skipped"}

\* A worker starts the closure on one RepoConfig: update_cond, and for an
\* eligible one the Repository::discover of update_repo.
UpdateRepoBegin ==
    /\ UNCHANGED stdout
    /\ pc = "par_for_each"
    /\ \E i \in 1..Len(config) :
          /\ refresh[i].pc = "pending"
          /\ refresh' = [refresh EXCEPT ![i] =
                           IF update_cond(config[i])
                           THEN [pc |-> "running", how |-> RefreshHow(config[i]),
                                 outcome |-> "none", attempts |-> @.attempts + 1]
                           ELSE [@ EXCEPT !.pc = "skipped"]]
    /\ UNCHANGED <<config, fs_dirs, fs_files, conf_i, walk_stack, template_paths, templates,
                   file_state, available_templates, template_string, consolidation_string,
                   result, log, output_file, pc, clock, state, disk, operation, git_repos,
                   is_stale, exit_status, runs, writes>>

\* update_repo returns: Ok, or an Err that the closure logs with error!.
UpdateRepoEnd ==
    /\ UNCHANGED stdout
    /\ pc = "par_for_each"
    /\ \E i \in 1..Len(config), ok \in BOOLEAN :
          /\ refresh[i].pc = "running"
          /\ refresh' = [refresh EXCEPT ![i].pc = "done",
                                        ![i].outcome = IF ok THEN "ok" ELSE "err"]
          /\ git_repos' = IF ok THEN git_repos \cup {config[i].path} ELSE git_repos
          /\ fs_dirs' = IF ok THEN fs_dirs \cup {absolute_repo_path(config[i])} ELSE fs_dirs
          /\ log' = IF ok THEN log
                    ELSE Append(log, [level |-> "error", text |-> "git", arg |-> config[i].path])
    /\ UNCHANGED <<config, fs_files, conf_i, walk_stack, template_paths, templates,
                   file_state, available_templates, template_string, consolidation_string,
                   result, output_file, pc, clock, state, disk, operation, is_stale,
                   exit_status, runs, writes>>

\* After for_each: app_conf.state.last_update = SystemTime::now()
ParForEachReturn ==
    /\ UNCHANGED stdout
    /\ pc = "par_for_each"
    /\ Joined
    /\ state' = [state EXCEPT !.last_update = clock]
    /\ writes' = writes + 1
    /\ pc' = "update_done"
    /\ UNCHANGED <<config, fs_dirs, fs_files, conf_i, walk_stack, template_paths, templates,
                   file_state, available_templates, template_string, consolidation_string,
                   result, log, output_file, clock, disk, operation, git_repos, refresh,
                   is_stale, exit_status, runs>>

NextPar ==
    \/ UpdateRepoBegin
    \/ UpdateRepoEnd
    \/ ParForEachReturn

SpecPar == InitPar /\ [][NextPar]_vars

-----------------------------------------------------------------------------
(* What the claims about a run speak of, read off the state.                *)

\* check_staleness has returned in this run and last_update is still the
\* value it was given.
StalenessChecked == is_stale # "none" /\ writes = 0

(* C12 (src/src/config/state.rs:123-139), as claimed.  check_staleness      *)
(* reports Stale exactly when now - last_update exceeds seven days or now   *)
(* equals last_update, and Fresh in every other case.                       *)
C12_StaleOrFresh ==
    StalenessChecked =>
        IF clock - state.last_update > 7 * 24 * 60 * 60 \/ clock = state.last_update
        THEN is_stale = "Stale"
        ELSE is_stale = "Fresh"

(* C12, amended.  For a last_update that is not later than now,             *)
(* check_staleness reports Stale exactly when now - last_update exceeds     *)
(* seven days or now equals last_update, and Fresh otherwise (eight days:   *)
(* Stale, one day: Fresh, exactly seven days: Fresh); for a last_update     *)
(* later than now it returns an error and the run ends with that error.     *)
C12_StalenessOfPastUpdate ==
    StalenessChecked =>
        /\ state.last_update <= clock =>
              IF clock - state.last_update > 7 * 24 * 60 * 60 \/ clock = state.last_update
              THEN is_stale = "Stale"
              ELSE is_stale = "Fresh"
        /\ clock - state.last_update = 8 * 24 * 60 * 60 => is_stale = "Stale"
        /\ clock - state.last_update = 24 * 60 * 60 => is_stale = "Fresh"
        /\ clock - state.last_update = 7 * 24 * 60 * 60 => is_stale = "Fresh"
        /\ state.last_update > clock =>
              /\ is_stale = "Err"
              /\ pc \in {"main", "exited"}
              /\ result.status = "Err"

\* A cache exactly seven days old was reported Fresh.
C12_Witness ==
    /\ StalenessChecked
    /\ clock - state.last_update = 7 * 24 * 60 * 60
    /\ is_stale = "Fresh"

\* The first run found no state file: load wrote the state it was created
\* with, and nothing has replaced it.
CreatedState ==
    /\ runs = 1
    /\ disk[STATE_FILE_PATH_SUFFIX].content = StateToml([last_update |-> FirstRunAt - 1])

(* C13 (src/src/config/state.rs:36-54, 123-139; runtime.rs:77-87).  On a    *)
(* run that finds no state file the state is created as never updated,      *)
(* check_staleness reports Stale and a refresh cycle is entered before the  *)
(* requested operation.                                                     *)
C13_FirstRunRefreshes ==
    (CreatedState /\ StalenessChecked) =>
        /\ is_stale = "Stale"
        /\ pc = "update_gitignore_repos"

\* A refresh cycle has run to its end in this run: last_update was assigned.
CycleCompleted == writes > 0 /\ refresh # <<>>

\* The refresh was asked for by the user (the update operation).
Forced == operation = "UpdateRepositories"

Attempted(i) == refresh[i].attempts > 0

C15_FailureContained ==
    (pc \in {"main", "exited"} /\ refresh # <<>>) =>
        \A i \in 1..Len(config) :
            (config[i].url # <<>> /\ (Forced \/ config[i].auto_update)) => Attempted(i)

(* C16 (src/src/app.rs:363-422, src/src/git.rs:24-43).  After a refresh     *)
(* cycle, however many of its repository refreshes failed, last_update is   *)
(* the current time and a check at any later time within seven days is      *)
(* Fresh.                                                                   *)
C16_LastUpdateSetAfterCycle ==
    (pc \in {"main", "exited"} /\ refresh # <<>>) =>
        /\ state.last_update = clock
        /\ \A later \in 1..2 :
              check_staleness(state.last_update, clock + later * SECONDS_IN_DAY) = "Fresh"

\* A refresh task is under way or over for descriptor i.
TaskOver(i) == refresh[i].pc \in {"done", "skipped"}

(* C17 (src/src/git.rs:24-43).  With the repository refreshes running in    *)
(* parallel, in every interleaving each eligible descriptor is attempted    *)
(* exactly once, last_update is written exactly once, by the caller and     *)
(* only after every refresh task is over, and no task touches last_update.  *)
C17_SingleWriteAfterJoin ==
    /\ [](/\ \A i \in 1..Len(config) : refresh[i].attempts <= 1
          /\ writes <= 1
          /\ writes = 1 =>
                \A i \in 1..Len(config) :
                    /\ TaskOver(i)
                    /\ Attempted(i) <=> update_cond(config[i])
          /\ pc = "update_done" => writes = 1 /\ state.last_update = clock)
    /\ [][/\ refresh' # refresh => state' = state /\ writes' = writes
          /\ state' # state => (writes' = writes + 1 /\ refresh' = refresh)]_vars

\* last_update was written after every descriptor had been attempted and
\* one of the attempts had failed.
C17_Witness ==
    /\ pc = "update_done"
    /\ writes = 1
    /\ \A i \in 1..Len(config) : Attempted(i)
    /\ \E i \in 1..Len(config) : refresh[i].outcome = "err"

\* Two refresh tasks are under way at the same time.
C17_TasksOverlap ==
    \A i \in 1..Len(refresh) : refresh[i].pc = "running"

\* A refresh cycle was entered in this run.
CycleEntered == refresh # <<>>

\* The last_update a run started now would load from the state file.
LastUpdateOnDisk ==
    LET content == disk[STATE_FILE_PATH_SUFFIX].content
    IN  IF content # <<>> /\ ParsesAs(content, "last_update")
        THEN content[1].value ELSE -1

(* C18 (src/src/app.rs:68-85, src/src/config/state.rs:109-121).  A run that *)
(* performs a refresh cycle at time t persists the new last_update, so that *)
(* a later run within seven days reports Fresh, whatever the outcome of the *)
(* repository refreshes and of the requested operation; a failure to write  *)
(* the state file itself is set aside.                                      *)
C18_RefreshTimePersisted ==
    (pc = "exited" /\ CycleEntered /\ result.kind # "io") =>
        /\ LastUpdateOnDisk = clock
        /\ \A gap \in Gaps :
              gap <= REPO_UPDATE_LIMIT =>
                  check_staleness(LastUpdateOnDisk, clock + gap) = "Fresh"

(* C19 (src/src/main.rs:33-40, src/src/app.rs:68-85).  An error returned by *)
(* load or run makes the process end with a non-zero exit status; status    *)
(* zero occurs only when the requested operation succeeded.                 *)
C19_ErrorExitsNonZero ==
    pc = "exited" => (exit_status = 0 <=> result.status = "Ok")

\* The state file was malformed when this run loaded it: load appended to
\* it, and nothing has rewritten it.
StateWasMalformed ==
    /\ pc \notin {"state_load", "exited"}
    /\ disk[STATE_FILE_PATH_SUFFIX].content # <<>>
    /\ disk[STATE_FILE_PATH_SUFFIX].content[1].kind = "garbage"

\* The config file was malformed when this run loaded it and the copy to
\* its sibling did not fail.
ConfigWasMalformed ==
    /\ pc \notin {"state_load", "config_load"}
    /\ disk[DEFAULT_CONFIG_PATH].content # <<>>
    /\ disk[DEFAULT_CONFIG_PATH].content[1].kind = "nul"

(* C20 (src/src/config/configs.rs:120-167, src/src/config/state.rs:57-99).  *)
(* A config file or state file found malformed at load has been copied to   *)
(* its `.bak` sibling, the defaults are in memory, and the run went on.     *)
C20_MalformedBackedUp ==
    /\ ConfigWasMalformed =>
          /\ disk[Bak(DEFAULT_CONFIG_PATH)].exists
          /\ disk[Bak(DEFAULT_CONFIG_PATH)].content # <<>>
          /\ config = ConfigDefault
    /\ StateWasMalformed =>
          /\ disk[Bak(STATE_FILE_PATH_SUFFIX)].exists
          /\ disk[Bak(STATE_FILE_PATH_SUFFIX)].content = <<GarbageState>>

-----------------------------------------------------------------------------
(* Clone failure while building the index.                                  *)

\* C21: a clone that fails while the index is built is not fatal: the build
\* never ends with the clone's error, it goes on to the remaining
\* repositories.
C21_CloneFailureNotFatal == ~(pc = "index_failed" /\ result = ErrGit)

-----------------------------------------------------------------------------
(* The destination file of generate.                                        *)

\* generate_gitignore is opening, truncating and writing the destination.
Writing == pc = "write_gitignore"

\* C22 as stated: a successful generate leaves exactly the new document in
\* the destination, and a generate that fails after it changed the
\* destination leaves it empty.
C22_TruncateThenRewrite ==
    [][Writing =>
          /\ pc' = "generate_done" =>
                output_file' = [exists |-> TRUE, content |-> consolidation_string]
          /\ (pc' = "generate_failed" /\ output_file'.content # output_file.content) =>
                output_file'.content = <<>>]_vars

\* C22, amended: a successful generate leaves exactly the new document in
\* the destination; a generate that fails in open or set_len leaves the
\* previous content (creating the file if it was absent), and one that fails
\* in write_all leaves a proper prefix of the new document, empty or not,
\* never followed by bytes of the previous content.
C22_TruncateThenPrefix ==
    [][Writing =>
          /\ pc' = "generate_done" =>
                output_file' = [exists |-> TRUE, content |-> consolidation_string]
          /\ pc' = "generate_failed" =>
                /\ result' = ErrIo
                /\ \/ output_file'.content = output_file.content
                   \/ /\ output_file'.exists
                      /\ StartsWith(consolidation_string, output_file'.content)
                      /\ output_file'.content # consolidation_string]_vars

\* write_all failed after it had written part of the document.
C22_Witness ==
    /\ pc = "generate_failed"
    /\ result = ErrIo
    /\ output_file.exists
    /\ output_file.content # <<>>
    /\ output_file.content # consolidation_string
    /\ StartsWith(consolidation_string, output_file.content)

-----------------------------------------------------------------------------
(* The order and repetition of the requested names.                         *)

\* The names of a request.
NameSet(request) == {request[i] : i \in 1..Len(request)}

\* What generate_gitignore computes for a request over the index and files
\* of this run.
DocumentOf(request) ==
    concatenate_templates(request, parse_templates(request, template_paths), file_state)

\* `order` lists names in ascending byte order.
Ascending(order) == \A i, j \in 1..Len(order) : i < j => StrLess(order[i], order[j])

\* C26: every request with the same set of names as this run's request
\* yields the same result and the same document, and the summary line and
\* the blocks of the document are in ascending byte order of the names.
C26_RequestOrderIrrelevant ==
    Concatenated =>
        /\ \A request \in Requests :
              NameSet(request) = NameSet(templates) =>
                  /\ DocumentOf(request).return_string = consolidation_string
                  /\ DocumentOf(request).result = DocumentOf(templates).result
        /\ consolidation_string # <<>> =>
              \E order \in Orders(DOMAIN template_string) :
                  Ascending(order) /\ LaidOut(consolidation_string, order)

\* A document of two blocks for a request that names them in descending
\* order.
C26_Witness ==
    /\ pc = "write_gitignore"
    /\ templates = <<t_c, t_C>>
    /\ Cardinality(DOMAIN template_string) = 2

-----------------------------------------------------------------------------
(* The closing delimiter of a block.                                        *)

\* C28: the closing `# ----` of every block starts a line: the character
\* before it is a line ending, whatever the files of the template hold.
C28_ClosingOnOwnLine ==
    Concatenated =>
        \A k \in DOMAIN template_string :
            EndsWith(template_string[k], <<"\n">> \o BlockClosing)

-----------------------------------------------------------------------------
(* The destination file of a generate that fails with MissingTemplates.     *)

\* C29: generate fails with MissingTemplates only where no block can be
\* produced, it has stopped by then, and in a run where no block can be
\* produced no step creates, truncates or writes the destination: the file
\* is as it was before the run.
C29_MissingTemplatesLeavesOutput ==
    /\ [](result.kind = "MissingTemplates" => pc = "generate_failed" /\ NoBlockCase)
    /\ []((Concatenated /\ NoBlockCase) => output_file \in PreviousOutputs)
    /\ [][NoBlockCase => output_file' = output_file]_vars

\* generate has failed with MissingTemplates and the destination, absent
\* before the run, is absent.
C29_Witness ==
    /\ pc = "generate_failed"
    /\ result.kind = "MissingTemplates"
    /\ output_file = AbsentFile

-----------------------------------------------------------------------------
(* A last update that lies in the future.                                   *)

\* run has been entered in this run of the program.
RunEntered == pc \notin {"state_load", "config_load", "check_staleness"} /\ is_stale # "none"

\* C30: a run that loads a last_update later than the current time gets an
\* error from check_staleness and ends with it: no refresh cycle is entered,
\* no operation is performed, and no step of the run changes the state file,
\* the destination or the cache, so the state file still holds the later
\* time and every run started before the clock has reached it ends the same
\* way.
C30_FutureUpdateAborts ==
    /\ []((RunEntered /\ state.last_update > clock /\ writes = 0) => is_stale = "Err")
    /\ [](is_stale = "Err" =>
            /\ pc \in {"main", "exited"}
            /\ result.status = "Err"
            /\ refresh = <<>> /\ writes = 0
            /\ available_templates = EmptyMap /\ consolidation_string = <<>>
            /\ LastUpdateOnDisk = state.last_update
            /\ LastUpdateOnDisk > clock)
    /\ [][is_stale' = "Err" =>
            /\ disk'[STATE_FILE_PATH_SUFFIX] = disk[STATE_FILE_PATH_SUFFIX]
            /\ output_file' = output_file
            /\ git_repos' = git_repos]_vars

\* The second of two runs that found the state file's time ahead of the
\* clock has ended.
C30_Witness ==
    /\ runs = 2
    /\ pc = "exited"
    /\ is_stale = "Err"

-----------------------------------------------------------------------------
(* The printed list of template names.                                      *)

\* list_templates has printed the list.
Listed == pc = "list_done"

\* The lines of the output (each ends in "\n").
ListedLines ==
    LET ends == {i \in 1..Len(stdout) : stdout[i] = "\n"}
        end == [n \in 0..Cardinality(ends) |->
                   IF n = 0 THEN 0
                   ELSE CHOOSE p \in ends : Cardinality({q \in ends : q < p}) = n - 1]
    IN  [n \in 1..Cardinality(ends) |-> SubSeq(stdout, end[n - 1] + 1, end[n] - 1)]

\* The width of a column (the longest name and one space), the cells of a
\* line and the cells of the output in reading order.
ColumnWidth == Max({Len(k) : k \in DOMAIN template_paths} \cup {0}) + 1
Cells(line, width) ==
    [i \in 1..(Len(line) \div width) |-> SubSeq(line, (i - 1) * width + 1, i * width)]
PrintedCells(lines, width) == Concat([i \in 1..Len(lines) |-> Cells(lines[i], width)])

\* The name in a cell: the cell up to its last character that is no space.
CellName(cell) == SubSeq(cell, 1, Max({j \in 1..Len(cell) : cell[j] # " "} \cup {0}))

\* Every line is made of whole cells, every cell is a name of the index
\* followed by spaces only, every name has one cell, and the cells are in
\* ascending order of the lower-cased names.
ListedInColumns(lines, width) ==
    LET cells == PrintedCells(lines, width)
        names == [i \in 1..Len(cells) |-> CellName(cells[i])]
        lower == [i \in 1..Len(cells) |-> to_lowercase(names[i])]
    IN  /\ \A i \in 1..Len(lines) : Len(lines[i]) % width = 0
        /\ Len(cells) = Cardinality(DOMAIN template_paths)
        /\ {names[i] : i \in 1..Len(cells)} = DOMAIN template_paths
        /\ \A i \in 1..Len(cells) :
              \A j \in (Len(names[i]) + 1)..width : cells[i][j] = " "
        /\ \A i, j \in 1..Len(cells) : i < j => ~StrLess(lower[j], lower[i])

\* C24 as stated: the list holds every name of the index once, in
\* case-insensitive order, padded to a common width, and no line of it is
\* wider than 78 columns, whatever the names.
C24_ListWithinLimit ==
    Listed =>
        LET lines == ListedLines
        IN  /\ ListedInColumns(lines, ColumnWidth)
            /\ \A i \in 1..Len(lines) : Len(lines[i]) <= 78

\* C24, amended: the list holds every name of the index once, in
\* case-insensitive order, padded to a common width of the longest name plus
\* one.  When that width is at most 78 no line is wider than 78 columns and
\* every line but the last is filled as far as the limit allows; when a name
\* is 78 bytes or longer the output starts with an empty line and every name
\* stands alone on a line as wide as the column.
C24_ListInColumns ==
    Listed =>
        LET lines == ListedLines
            width == ColumnWidth
        IN  /\ ListedInColumns(lines, width)
            /\ width <= 78 =>
                  /\ \A i \in 1..Len(lines) : Len(lines[i]) <= 78
                  /\ \A i \in 1..(Len(lines) - 1) : Len(lines[i]) + width > 78
            /\ width > 78 =>
                  /\ lines[1] = <<>>
                  /\ \A i \in 2..Len(lines) : Len(lines[i]) = width

\* A list of two lines, the first of them filled with three names.
C24_Witness ==
    /\ Listed
    /\ Len(ListedLines) = 2
    /\ Len(ListedLines[1]) = 78
    /\ ColumnWidth = 26

-----------------------------------------------------------------------------
(* last_update in a run that needs no refresh.                              *)

\* check_staleness reported Fresh and the operation is not update.
FreshKeep == is_stale = "Fresh" /\ operation # "UpdateRepositories"

-----------------------------------------------------------------------------
(* The refresh cycle of an update run.                                      *)

\* C27: an update run that got past check_staleness, stale or fresh, has
\* entered the refresh cycle, has not run it a second time (no repository
\* is attempted twice, last_update is assigned at most once), and has saved
\* the state file after it, so that the file holds the time of this run; a
\* failure to write the state file itself is set aside.
C27_RefreshOnceThenSave ==
    (Forced /\ pc = "exited" /\ is_stale \in {"Stale", "Fresh"} /\ result.kind # "io") =>
        /\ CycleEntered
        /\ writes <= 1
        /\ \A i \in 1..Len(refresh) : refresh[i].attempts <= 1
        /\ LastUpdateOnDisk = clock

-----------------------------------------------------------------------------
(* The config file a load leaves behind.                                    *)

\* Config::load has returned Ok in this run.
ConfigLoadedOk ==
    /\ is_stale # "none"
    /\ \A i \in 1..Len(log) : log[i].text # "config load error, using the default"

\* C23: a load of the config file leaves a file that parses back to the
\* Config it returned, whether the file was absent, empty, valid or
\* malformed before, so that a second load with nothing changed in between
\* succeeds and returns an equal Config.
C23_LoadedConfigParsesBack ==
    ConfigLoadedOk =>
        /\ ParsesAs(disk[DEFAULT_CONFIG_PATH].content, "repository")
        /\ disk[DEFAULT_CONFIG_PATH].content[1].value = config

====
